---------------------------- MODULE Spec2Model ----------------------------
(***************************************************************************)
(* Model of src/index.js: run(), the commit evaluation loop of the build   *)
(* size grapher.  One action per awaited step of run(); the working        *)
(* directory (checked-out reference, node_modules, uncommitted changes)    *)
(* and the two report files are the environment the steps act on.          *)
(*                                                                         *)
(* The history is linear.  Commits are numbered 1..repoCommits, 1 being    *)
(* the newest (git log lists newest first).  A reference is Branch (the    *)
(* branch whose tip is commit 1), a commit number (detached HEAD at that   *)
(* commit), or NoName (git.branch() reported no current name).             *)
(***************************************************************************)
EXTENDS Integers, Sequences, FiniteSets, TLC

\* ---- bounds -------------------------------------------------------------
MaxCommits == 3     \* longest history
MaxLimit == 3       \* largest --commitLimit
MaxSize == 1        \* largest artifact size in bytes
MaxRuns == 2        \* the script is started at most this many times

\* ---- references ---------------------------------------------------------
Branch == 0
NoName == 0 - 1

\* --commitLimit is a yargs number with no validation (index.js:26-32)
Limits == (0 - 1)..MaxLimit

\* outcomes of one commit's evaluation: the step that rejects, or "none"
Fates == {"none", "checkoutCommit", "rm", "install", "build", "stat", "info"}
Unknown == "?"

VARIABLES
    \* configuration (argv)
    commitLimit, verbose,
    \* environment
    repoCommits,    \* number of commits reachable from the branch tip
    gitState,       \* "ok" | "nogit" | "norepo" | "noname"
    subject,        \* per commit: its message subject, as characters
    head,           \* Branch, or k: detached at commit k
    dirty,          \* uncommitted modifications in the working directory
    nodeModules,    \* node_modules exists
    outputJson,     \* << >> if never written, else << contents >>
    reportHtml,     \* << >> if never written, else << COMMIT_DATA >>
    fate,           \* per commit: which step rejects (fixed once observed)
    zipSize,        \* per commit: size of the built artifact
    \* run()
    pc, branchName, commits, response, confirmation, index, buildSize,
    output, outcome,
    \* observation
    listed,         \* what getCommitList returned, before the splice
    log,            \* external operations issued by this run, in order
    runNo,          \* which start of the script this is
    firstOutput,    \* output of the first run, once it has ended
    firstListed,    \* what getCommitList returned in the first run
    firstConfirmed, \* the first run's confirmation
    firstLog,       \* the first run's log
    startWorkdir,   \* the working directory when this run started
    startFiles,     \* the report files when this run started
    exitCode,       \* exit status of the process, NotExited while it runs
    inflight        \* external operations issued and not yet settled

config == <<commitLimit, verbose>>
env == <<repoCommits, gitState, subject>>
workdir == <<head, dirty, nodeModules>>
files == <<outputJson, reportHtml>>
oracle == <<fate, zipSize>>
locals == <<branchName, commits, response, confirmation, index, buildSize,
           output>>
history == <<runNo, firstOutput, firstListed, firstConfirmed, firstLog,
            startWorkdir, startFiles, exitCode>>
vars == <<config, env, workdir, files, oracle, pc, locals, outcome, listed,
          log, history, inflight>>

\* ---- helpers ------------------------------------------------------------
Min(a, b) == IF a < b THEN a ELSE b
Max(a, b) == IF a > b THEN a ELSE b

Entry(op, arg, ok) == [op |-> op, arg |-> arg, ok |-> ok]
Logged(op, arg, ok) == Append(log, Entry(op, arg, ok))

\* every simple-git call spawns the git binary
GitWorks == gitState # "nogit"

\* the commit HEAD points at
HeadCommit == IF head = Branch THEN 1 ELSE head

\* git.log(): the commits reachable from HEAD, newest first
GitLog == [i \in 1..(repoCommits - HeadCommit + 1) |-> HeadCommit + i - 1]

\* as if written splice(0, start): the head is removed and the tail is kept
Splice_removesHead(arr, start) ==
    LET len == Len(arr)
        from == IF start < 0 THEN Max(len + start, 0) ELSE Min(start, len)
    IN  SubSeq(arr, from + 1, len)

\* off by one: one element more than asked for is kept
Splice_keepsOneMore(arr, start) ==
    LET len == Len(arr)
        from == IF start < 0 THEN Max(len + start, 0) ELSE Min(start, len)
    IN  SubSeq(arr, 1, Min(from + 1, len))

\* Array.prototype.splice(start) with one argument: a negative start counts
\* from the end; everything from start on is removed, the rest is kept
Splice(arr, start) ==
    LET len == Len(arr)
        from == IF start < 0 THEN Max(len + start, 0) ELSE Min(start, len)
    IN  SubSeq(arr, 1, from)

\* the limit applied without the test for 0
Truncate_alwaysSplice(arr, limit) == Splice(arr, limit)

\* index.js:270-272
Truncate(arr, limit) == IF limit # 0 THEN Splice(arr, limit) ELSE arr

\* an early return when nothing was selected
LoopTarget_returnsOnEmpty(i, cs) ==
    IF i < Len(cs) THEN "checkoutCommit"
    ELSE IF Len(cs) = 0 THEN "end" ELSE "checkoutBranch"

\* the loop test of index.js:289
LoopTarget(i, cs) == IF i < Len(cs) THEN "checkoutCommit" ELSE "checkoutBranch"

\* a checkout that cleans the tree but leaves HEAD where it was
CheckedOut_staysPut(ref) ==
    /\ head' = head
    /\ dirty' = FALSE
    /\ UNCHANGED nodeModules

\* git checkout <ref> -f on success
CheckedOut(ref) ==
    /\ head' = ref
    /\ dirty' = FALSE
    /\ UNCHANGED nodeModules

\* a rejected step: run() has no try/catch, its promise rejects
Reject == pc' = "end" /\ outcome' = "rejected"

\* what is in flight while run() is suspended at p: the operation it
\* awaits there; nothing once it has ended, and nothing at the existsSync
\* test when there is no node_modules to remove
Pending(p, nm) ==
    IF p = "end" \/ (p = "buildProject_clean" /\ ~nm) THEN {} ELSE {p}

\* a call that is not awaited: the continuation goes on while the
\* operation is still in flight
Awaited_notWaiting == inflight' = inflight \cup Pending(pc', nodeModules')

\* await: the continuation runs when the awaited operation has settled,
\* up to the next operation it issues
Awaited == inflight' = (inflight \ {pc}) \cup Pending(pc', nodeModules')

\* commit subjects: a plain one, and one that quotes, as git revert writes
NotExited == 0 - 1
Quote == "\""
Backslash == "\\"
Plain == <<"x">>
Quoted == <<"R", Quote, "x", Quote>>
Histories == {[c \in 1..MaxCommits |-> Plain],
              [c \in 1..MaxCommits |-> IF c = 1 THEN Quoted ELSE Plain]}

\* ---- initial state ------------------------------------------------------
Init ==
    /\ commitLimit \in Limits
    /\ verbose \in BOOLEAN
    /\ repoCommits \in 1..MaxCommits
    /\ gitState \in {"ok", "nogit", "norepo", "noname"}
    /\ subject \in Histories
    /\ head = IF gitState = "noname" THEN 1 ELSE Branch
    /\ dirty \in BOOLEAN
    /\ nodeModules \in BOOLEAN
    /\ outputJson = << >>
    /\ reportHtml = << >>
    /\ fate = [c \in 1..MaxCommits |-> Unknown]
    /\ zipSize = [c \in 1..MaxCommits |-> 0]
    /\ pc = "getCurrentBranch"
    /\ branchName = NoName
    /\ commits = << >>
    /\ response = ""
    /\ confirmation = FALSE
    /\ index = 0
    /\ buildSize = 0
    /\ output = << >>
    /\ outcome = "pending"
    /\ listed = << >>
    /\ log = << >>
    /\ runNo = 1
    /\ firstOutput = << >>
    /\ firstListed = << >>
    /\ firstConfirmed = FALSE
    /\ firstLog = << >>
    /\ startWorkdir = workdir
    /\ startFiles = files
    /\ exitCode = NotExited
    /\ inflight = {"getCurrentBranch"}

\* ---- run(), step by step ------------------------------------------------

\* index.js:265  const branchName = await getCurrentBranch();
\* git.branch() rejects when git cannot be spawned ("nogit") or the
\* directory is no repository ("norepo").  It resolves with the detached
\* reference as current when HEAD is detached, and with an empty current
\* when no line of the branch listing is recognised as current ("noname").
\* run() uses whatever it resolves with, unexamined.
getCurrentBranch ==
    /\ pc = "getCurrentBranch"
    /\ IF gitState \in {"nogit", "norepo"}
       THEN /\ Reject
            /\ log' = Logged("branch", NoName, FALSE)
            /\ UNCHANGED branchName
       ELSE /\ branchName' = IF gitState = "noname" THEN NoName ELSE head
            /\ pc' = "getCommitList"
            /\ log' = Logged("branch", branchName', TRUE)
            /\ UNCHANGED outcome
    /\ UNCHANGED <<config, env, workdir, files, oracle, commits, response,
                   confirmation, index, buildSize, output, listed, history>>
    /\ Awaited

\* index.js:266-272  getCommitList(), then the splice
getCommitList ==
    /\ pc = "getCommitList"
    /\ LET all == IF ~GitWorks THEN << >> ELSE GitLog
       IN  /\ listed' = all
           /\ commits' = Truncate(all, commitLimit)
           /\ log' = Logged("log", Len(all), TRUE)
    /\ pc' = "promptConfirmation"
    /\ UNCHANGED <<config, env, workdir, files, oracle, branchName, response,
                   confirmation, index, buildSize, output, outcome, history>>
    /\ Awaited

\* what the user may type at the prompt
Responses == {"y", "Y", "n", "N", ""}

\* String.prototype.toLowerCase on those
ToLowerCase(r) == IF r = "Y" THEN "y" ELSE IF r = "N" THEN "n" ELSE r

\* anything but an explicit no proceeds
Confirmed_unlessNo(r) == ToLowerCase(r) # "n"

\* index.js:228  response.toLowerCase() === "y"
Confirmed(r) == ToLowerCase(r) = "y"

\* index.js:274-287  the prompt, the early return, output = [], index = 0
promptConfirmation ==
    /\ pc = "promptConfirmation"
    /\ \E r \in Responses :
        /\ response' = r
        /\ confirmation' = Confirmed(r)
        /\ log' = Logged("prompt", 0, confirmation')
        /\ IF confirmation'
           THEN /\ pc' = LoopTarget(0, commits)
                /\ UNCHANGED outcome
           ELSE /\ pc' = "end"
                /\ outcome' = "resolved"
    /\ index' = 0
    /\ output' = << >>
    /\ UNCHANGED <<config, env, workdir, files, oracle, branchName, commits,
                   buildSize, listed, history>>
    /\ Awaited

\* the commit under evaluation: commits[index]
Commit == commits[index + 1]

\* index.js:294  await checkoutCommit(commit);
\* The first time a commit is evaluated the environment settles which of
\* its steps rejects and how large its artifact is.
checkoutCommit ==
    /\ pc = "checkoutCommit"
    /\ \E f \in Fates, s \in 0..MaxSize :
        /\ IF fate[Commit] = Unknown
           THEN /\ fate' = [fate EXCEPT ![Commit] = f]
                /\ zipSize' = [zipSize EXCEPT ![Commit] =
                                  IF f \in {"none", "info"} THEN s ELSE 0]
           ELSE /\ f = fate[Commit]
                /\ s = zipSize[Commit]
                /\ UNCHANGED oracle
        /\ IF f = "checkoutCommit"
           THEN /\ Reject
                /\ log' = Logged("checkoutCommit", Commit, FALSE)
                /\ UNCHANGED workdir
           ELSE /\ CheckedOut(Commit)
                /\ pc' = "buildProject_clean"
                /\ log' = Logged("checkoutCommit", Commit, TRUE)
                /\ UNCHANGED outcome
    /\ UNCHANGED <<config, env, files, locals, listed, history>>
    /\ Awaited

\* exit status of sub-step op of buildProject on commit c
ExitCode(op, c) == IF fate[c] = op THEN 1 ELSE 0

\* the exit status is never looked at
ExecAsync_alwaysResolves(code, silent) == TRUE

\* a silenced command cannot fail
ExecAsync_silentSwallows(code, silent) == silent \/ code = 0

\* index.js:78-86  execAsync(cmd, { silent }): TRUE when the promise
\* resolves, FALSE when it rejects; silent only keeps the command's output
\* off the terminal
ExecAsync(code, silent) == code = 0

\* index.js:111-113  rm -rf node_modules, only if it exists
buildProject_clean ==
    /\ pc = "buildProject_clean"
    /\ IF nodeModules
       THEN IF ~ExecAsync(ExitCode("rm", Commit), ~verbose)
            THEN /\ Reject
                 /\ log' = Logged("rm", Commit, FALSE)
                 /\ UNCHANGED workdir
            ELSE /\ nodeModules' = FALSE
                 /\ pc' = "buildProject_install"
                 /\ log' = Logged("rm", Commit, TRUE)
                 /\ UNCHANGED <<head, dirty, outcome>>
       ELSE /\ pc' = "buildProject_install"
            /\ UNCHANGED <<workdir, log, outcome>>
    /\ UNCHANGED <<config, env, files, oracle, locals, listed, history>>
    /\ Awaited

\* index.js:123  await execAsync("npm ci", ...)
buildProject_install ==
    /\ pc = "buildProject_install"
    /\ IF ~ExecAsync(ExitCode("install", Commit), ~verbose)
       THEN /\ Reject
            /\ log' = Logged("install", Commit, FALSE)
            /\ nodeModules' \in BOOLEAN
       ELSE /\ nodeModules' = TRUE
            /\ pc' = "buildProject_build"
            /\ log' = Logged("install", Commit, TRUE)
            /\ UNCHANGED outcome
    /\ UNCHANGED <<config, env, head, dirty, files, oracle, locals, listed,
                   history>>
    /\ Awaited

\* index.js:133  await execAsync(buildCommand, ...)
buildProject_build ==
    /\ pc = "buildProject_build"
    /\ IF ~ExecAsync(ExitCode("build", Commit), ~verbose)
       THEN /\ Reject
            /\ log' = Logged("build", Commit, FALSE)
       ELSE /\ pc' = "evaluteBuildSize"
            /\ log' = Logged("build", Commit, TRUE)
            /\ UNCHANGED outcome
    /\ UNCHANGED <<config, env, workdir, files, oracle, locals, listed,
                   history>>
    /\ Awaited

\* a missing artifact skips the commit and the loop goes on
evaluteBuildSize_skipsCommit ==
    /\ pc = "evaluteBuildSize"
    /\ IF fate[Commit] = "stat"
       THEN /\ index' = index + 1
            /\ pc' = LoopTarget(index + 1, commits)
            /\ log' = Logged("stat", Commit, FALSE)
            /\ UNCHANGED <<buildSize, outcome>>
       ELSE /\ buildSize' = zipSize[HeadCommit]
            /\ pc' = "getCurrentCommitInfo"
            /\ log' = Logged("stat", Commit, TRUE)
            /\ UNCHANGED <<index, outcome>>
    /\ UNCHANGED <<config, env, workdir, files, oracle, branchName, commits,
                   response, confirmation, output, listed, history>>
    /\ Awaited

\* index.js:298  const buildSize = await evaluteBuildSize(zipPath);
evaluteBuildSize ==
    /\ pc = "evaluteBuildSize"
    /\ IF fate[Commit] = "stat"
       THEN /\ Reject
            /\ log' = Logged("stat", Commit, FALSE)
            /\ UNCHANGED buildSize
       ELSE /\ buildSize' = zipSize[HeadCommit]
            /\ pc' = "getCurrentCommitInfo"
            /\ log' = Logged("stat", Commit, TRUE)
            /\ UNCHANGED outcome
    /\ UNCHANGED <<index, config, env, workdir, files, oracle, branchName,
                   commits, response, confirmation, output, listed, history>>
    /\ Awaited

\* index.js:299-301  commitInfo of whatever is checked out, the push and
\* the loop increment
getCurrentCommitInfo ==
    /\ pc = "getCurrentCommitInfo"
    /\ IF fate[Commit] = "info"
       THEN /\ Reject
            /\ log' = Logged("info", Commit, FALSE)
            /\ UNCHANGED <<index, output>>
       ELSE /\ output' = Append(output, [hash |-> HeadCommit,
                                         message |-> subject[HeadCommit],
                                         buildSize |-> buildSize])
            /\ index' = index + 1
            /\ pc' = LoopTarget(index + 1, commits)
            /\ log' = Logged("info", Commit, TRUE)
            /\ UNCHANGED outcome
    /\ UNCHANGED <<config, env, workdir, files, oracle, branchName, commits,
                   response, confirmation, buildSize, listed, history>>
    /\ Awaited

\* index.js:313  await checkoutBranch(branchName);
\* With an empty name git either refuses or re-checks-out HEAD.
checkoutBranch ==
    /\ pc = "checkoutBranch"
    /\ \E ok \in BOOLEAN :
        /\ log' = Logged("checkoutBranch", branchName, ok)
        /\ IF ok
           THEN /\ CheckedOut(IF branchName = NoName THEN head ELSE branchName)
                /\ pc' = "writeOutput_json"
                /\ UNCHANGED outcome
           ELSE /\ Reject
                /\ UNCHANGED workdir
    /\ UNCHANGED <<config, env, files, oracle, locals, listed, history>>
    /\ Awaited

\* the string written as it is
JsonEscape_raw(str) == str

\* JSON.stringify of a string, without the enclosing quotes: a quote and a
\* backslash are written with a backslash in front
RECURSIVE JsonEscape(_)
JsonEscape(str) ==
    IF str = << >> THEN << >>
    ELSE (IF Head(str) \in {Quote, Backslash}
          THEN <<Backslash, Head(str)>> ELSE <<Head(str)>>)
         \o JsonEscape(Tail(str))

\* JSON.stringify(output): the document, one object per result, the
\* string escaped and the numbers as they are
JsonStringify(out) ==
    [i \in 1..Len(out) |-> [hash |-> out[i].hash,
                            message |-> JsonEscape(out[i].message),
                            buildSize |-> out[i].buildSize]]

\* JSON.parse on the body of a string: a bare quote ends the string early
\* and a backslash must be followed by a character it can escape
RECURSIVE JsonStringOk(_)
JsonStringOk(body) ==
    IF body = << >> THEN TRUE
    ELSE IF Head(body) = Quote THEN FALSE
    ELSE IF Head(body) = Backslash
         THEN /\ Len(body) >= 2
              /\ body[2] \in {Quote, Backslash}
              /\ JsonStringOk(SubSeq(body, 3, Len(body)))
    ELSE JsonStringOk(Tail(body))

RECURSIVE JsonUnescape(_)
JsonUnescape(body) ==
    IF body = << >> THEN << >>
    ELSE IF Head(body) = Backslash /\ Len(body) >= 2
         THEN <<body[2]>> \o JsonUnescape(SubSeq(body, 3, Len(body)))
    ELSE <<Head(body)>> \o JsonUnescape(Tail(body))

\* JSON.parse(text): a SyntaxError (ok = FALSE) or the value
JsonParse(doc) ==
    IF \A i \in 1..Len(doc) : JsonStringOk(doc[i].message)
    THEN [ok |-> TRUE,
          value |-> [i \in 1..Len(doc) |->
                        [hash |-> doc[i].hash,
                         message |-> JsonUnescape(doc[i].message),
                         buildSize |-> doc[i].buildSize]]]
    ELSE [ok |-> FALSE, value |-> << >>]

\* the string a template literal `...` denotes: a backslash and the
\* character after it stand for that character
RECURSIVE TemplateCooked(_)
TemplateCooked(src) ==
    IF src = << >> THEN << >>
    ELSE IF Head(src) = Backslash /\ Len(src) >= 2
         THEN <<src[2]>> \o TemplateCooked(SubSeq(src, 3, Len(src)))
    ELSE <<Head(src)>> \o TemplateCooked(Tail(src))

\* generateReport.js:21-25  the script put into report.html:
\* var COMMIT_DATA = JSON.parse(`${JSON.stringify(reportData)}`);
\* kept as the source text between the backticks
generateReportFileContents(reportData) == JsonStringify(reportData)

\* what COMMIT_DATA is when the browser runs that script
CommitData(script) ==
    JsonParse([i \in 1..Len(script) |->
                 [script[i] EXCEPT !.message = TemplateCooked(@)]])

\* index.js:185  writeFile(output.json, JSON.stringify(output, undefined, 2))
writeOutput_json ==
    /\ pc = "writeOutput_json"
    /\ \E ok \in BOOLEAN :
        /\ log' = Logged("writeJson", Len(output), ok)
        /\ IF ok
           THEN /\ outputJson' = <<JsonStringify(output)>>
                /\ pc' = "writeOutput_report"
                /\ UNCHANGED outcome
           ELSE /\ Reject
                /\ UNCHANGED outputJson
    /\ UNCHANGED <<config, env, workdir, reportHtml, oracle, locals, listed,
                   history>>
    /\ Awaited

\* index.js:197-198  generateReportFileContents(output), then writeFile
writeOutput_report ==
    /\ pc = "writeOutput_report"
    /\ \E ok \in BOOLEAN :
        /\ log' = Logged("writeHtml", Len(output), ok)
        /\ IF ok
           THEN /\ reportHtml' = <<generateReportFileContents(output)>>
                /\ pc' = "end"
                /\ outcome' = "resolved"
           ELSE /\ Reject
                /\ UNCHANGED reportHtml
    /\ UNCHANGED <<config, env, workdir, outputJson, oracle, locals, listed,
                   history>>
    /\ Awaited

\* index.js:320  run();  nothing handles the promise run() returns.  When
\* it resolves the process exits with 0.  When it rejects, the exit status
\* is the runtime's treatment of an unhandled rejection: a warning and 0
\* (Node before 15) or an uncaught error and 1 (Node 15 and later).
exit ==
    /\ pc = "end"
    /\ exitCode = NotExited
    /\ IF outcome = "rejected" THEN exitCode' \in {0, 1} ELSE exitCode' = 0
    /\ UNCHANGED <<config, env, workdir, files, oracle, pc, locals, outcome,
                   listed, log, runNo, firstOutput, firstListed,
                   firstConfirmed, firstLog, startWorkdir, startFiles,
                   inflight>>

\* index.js:320  run();  the script is started again on the same working
\* directory with the same argv
Restart ==
    /\ pc = "end"
    /\ exitCode # NotExited
    /\ runNo < MaxRuns
    /\ runNo' = runNo + 1
    /\ firstOutput' = output
    /\ firstListed' = listed
    /\ firstConfirmed' = confirmation
    /\ firstLog' = log
    /\ startWorkdir' = workdir
    /\ startFiles' = files
    /\ pc' = "getCurrentBranch"
    /\ branchName' = NoName
    /\ commits' = << >>
    /\ response' = ""
    /\ confirmation' = FALSE
    /\ index' = 0
    /\ buildSize' = 0
    /\ output' = << >>
    /\ outcome' = "pending"
    /\ listed' = << >>
    /\ log' = << >>
    /\ exitCode' = NotExited
    /\ inflight' = {"getCurrentBranch"}
    /\ UNCHANGED <<config, env, workdir, files, oracle>>

Next ==
    \/ getCurrentBranch
    \/ getCommitList
    \/ promptConfirmation
    \/ checkoutCommit
    \/ buildProject_clean
    \/ buildProject_install
    \/ buildProject_build
    \/ evaluteBuildSize
    \/ getCurrentCommitInfo
    \/ checkoutBranch
    \/ writeOutput_json
    \/ writeOutput_report
    \/ exit
    \/ Restart

Spec == Init /\ [][Next]_vars

TypeOK ==
    /\ commitLimit \in Limits
    /\ head \in 0..MaxCommits
    /\ branchName \in (0 - 1)..MaxCommits
    /\ index \in 0..MaxCommits
    /\ Len(output) <= MaxCommits
    /\ outcome \in {"pending", "resolved", "rejected"}
    /\ (pc = "end") <=> (outcome # "pending")
    /\ exitCode \in {NotExited, 0, 1}
    /\ inflight \subseteq {pc}

\* ---- observations the properties are stated on --------------------------
Ended == pc = "end"

\* the steps run() takes once per selected commit
PerCommitOps == {"checkoutCommit", "rm", "install", "build", "stat", "info"}

\* the operations that change the working directory or the report files
MutatingOps == {"checkoutCommit", "checkoutBranch", "rm", "install", "build",
                "writeJson", "writeHtml"}

Issued(op) == \E i \in 1..Len(log) : log[i].op = op
IssuedAny(ops) == \E i \in 1..Len(log) : log[i].op \in ops
Count(op) == Cardinality({i \in 1..Len(log) : log[i].op = op})
Last == log[Len(log)]

\* getCurrentBranch resolved, with a name
Captured == Len(log) > 0 /\ log[1].ok /\ branchName # NoName

\* the commit identifiers of a result sequence
Ids(out) == [i \in 1..Len(out) |-> out[i].hash]

\* position of commit c in the selected list
PosOf(c) == CHOOSE j \in 1..Len(commits) : commits[j] = c

\* C1: when a run whose branch capture succeeded ends, whatever the outcome
\* of the per-commit steps, the reference checked out in the working
\* directory is the branch name captured at the start of the run (a run
\* whose restoring checkout itself was rejected is not counted against it).
C1_RestoredAtEnd ==
    (Ended /\ Captured /\ ~(Last.op = "checkoutBranch" /\ ~Last.ok))
        => head = branchName

\* C2: once at least one checkoutCommit has been issued, a run that has
\* ended has attempted checkoutBranch(branchName).
C2_RestoreAttempted ==
    (Ended /\ Issued("checkoutCommit")) => Issued("checkoutBranch")

\* C3: for a non-negative commitLimit L and a listed history of length N,
\* a confirmed run in which every step succeeded has checked out and
\* recorded exactly N commits if L = 0 and min(L, N) otherwise.
C3_EvaluatedCount ==
    (Ended /\ outcome = "resolved" /\ confirmation /\ commitLimit >= 0)
        => LET n == Len(listed)
               expected == IF commitLimit = 0 THEN n ELSE Min(commitLimit, n)
           IN  /\ Len(output) = expected
               /\ Count("checkoutCommit") = expected
               /\ JsonParse(outputJson[1]) = [ok |-> TRUE, value |-> output]

C3_Witness ==
    /\ Ended /\ outcome = "resolved" /\ confirmation
    /\ commitLimit = 2 /\ Len(listed) = 3 /\ Len(output) = 2

\* where run() is inside the evaluation loop
LoopPcs == {"checkoutCommit", "buildProject_clean", "buildProject_install",
            "buildProject_build", "evaluteBuildSize", "getCurrentCommitInfo"}

\* C4: when a per-commit step is rejected while evaluating the k-th
\* selected commit, the loop is left at once: no per-commit step is issued
\* after it, the results recorded are exactly those of the first k-1
\* commits, in order, none is recorded for commit k, and no step is issued
\* for any commit after the k-th.
C4_AbortOnFirstFailure ==
    \A p \in 1..Len(log) :
        (log[p].op \in PerCommitOps /\ ~log[p].ok)
            => /\ \A q \in (p + 1)..Len(log) : log[q].op \notin PerCommitOps
               /\ pc \notin LoopPcs
               /\ LET k == PosOf(log[p].arg)
                  IN  /\ Len(output) = k - 1
                      /\ \A i \in 1..(k - 1) : output[i].hash = commits[i]
                      /\ \A q \in 1..Len(log) :
                            log[q].op \in PerCommitOps
                                => log[q].arg \in {commits[j] : j \in 1..k}
                      /\ Count("checkoutCommit") = k

C4_Witness ==
    /\ Ended /\ Len(log) > 0
    /\ Last.op = "build" /\ ~Last.ok
    /\ Len(commits) = 3 /\ Last.arg = commits[2] /\ Len(output) = 1

\* C5: when the user declines, the run resolves without having issued any
\* checkout, build step or report write, and the working directory
\* (reference, uncommitted modifications, node_modules) and the report
\* files are as they were when the run started.
C5_DeclineIsNoOp ==
    (Issued("prompt") /\ ~(ToLowerCase(response) = "y"))
        => /\ Ended /\ outcome = "resolved"
           /\ ~IssuedAny(MutatingOps)
           /\ workdir = startWorkdir
           /\ files = startFiles

C5_Witness ==
    /\ Issued("prompt") /\ response = "" /\ Ended
    /\ dirty /\ Len(commits) > 0

\* C6: without a version-control tool the run lists the empty sequence,
\* evaluates nothing and ends normally.
C6_NoGitTrivialRun ==
    (Ended /\ gitState = "nogit")
        => /\ outcome = "resolved"
           /\ Issued("log") /\ listed = << >>
           /\ output = << >>

\* C7: when the branch capture is rejected or yields no name, no checkout,
\* build step or report write is ever issued and the loop is not entered.
C7_NoTargetNoEvaluation ==
    (Len(log) > 0 /\ ~Captured)
        => /\ ~IssuedAny(MutatingOps)
           /\ pc \notin LoopPcs

\* C8 as stated: with an empty selected list a confirmed run ends normally
\* and has written the empty report.
C8_EmptyAlwaysReports ==
    (Ended /\ confirmation /\ commits = << >>)
        => /\ outcome = "resolved"
           /\ outputJson = << << >> >> /\ reportHtml = << << >> >>

\* C8 amended: with an empty selected list a confirmed run issues no
\* per-commit step and goes straight to the restoring checkout; when it
\* ends, it has resolved exactly if that checkout and both writes
\* succeeded, and then both report files hold the empty sequence;
\* otherwise the last step issued is the rejected checkout or write.
C8_EmptyRunIsTrivial ==
    (confirmation /\ commits = << >>)
        => /\ ~IssuedAny(PerCommitOps)
           /\ output = << >>
           /\ Ended =>
                /\ Issued("checkoutBranch")
                /\ Last.op \in {"checkoutBranch", "writeJson", "writeHtml"}
                /\ (outcome = "resolved") <=> (Last.op = "writeHtml" /\ Last.ok)
                /\ outcome = "resolved" =>
                      (outputJson = << << >> >> /\ reportHtml = << << >> >>)
                /\ outcome = "rejected" => ~Last.ok

C8_Witness ==
    /\ Ended /\ confirmation /\ commits = << >> /\ outcome = "resolved"
    /\ reportHtml = << << >> >>

\* C9: in a confirmed run that resolved, the i-th result describes the
\* i-th commit getCommitList returned: the results are a prefix of that
\* list, in its order, and with a limit L > 0 they are its first min(L, N).
C9_ResultsArePrefixOfListed ==
    (Ended /\ outcome = "resolved" /\ confirmation)
        => /\ Len(output) <= Len(listed)
           /\ \A i \in 1..Len(output) : output[i].hash = listed[i]
           /\ commitLimit > 0 => Len(output) = Min(commitLimit, Len(listed))

C9_Witness ==
    /\ Ended /\ outcome = "resolved" /\ confirmation
    /\ commitLimit = 2 /\ Len(listed) = 3
    /\ Ids(output) = <<listed[1], listed[2]>>

\* C10: two successive runs with the same argv and the same answer at the
\* prompt evaluate the same ordered sequence of commit identifiers,
\* whatever the outcome of the first run (set aside: a first run without a
\* captured branch name or whose restoring checkout was rejected, and an
\* rm -rf that fails, which is only executed when node_modules exists).
C10_SameIdsTwice ==
    (runNo = 2 /\ Ended /\ confirmation = firstConfirmed
       /\ gitState = "ok"
       /\ \A c \in 1..MaxCommits : fate[c] # "rm"
       /\ ~(firstLog[Len(firstLog)].op = "checkoutBranch"
              /\ ~firstLog[Len(firstLog)].ok))
        => Ids(output) = Ids(firstOutput)

\* ---- report, ordering, concurrency and error propagation ----------------
BuildOps == {"rm", "install", "build"}
WriteOps == {"writeJson", "writeHtml"}

\* number of settled, successful operations op of this run
OkCount(op) == Cardinality({i \in 1..Len(log) : log[i].op = op /\ log[i].ok})

\* this run wrote output.json
WroteJson == \E i \in 1..Len(log) : log[i].op = "writeJson" /\ log[i].ok

\* this run wrote both files
WroteBoth == \E i \in 1..Len(log) : log[i].op = "writeHtml" /\ log[i].ok

\* the sequence a reader gets from output.json; none when there is no file
Persisted == IF outputJson = << >> THEN << >> ELSE JsonParse(outputJson[1]).value

\* C11 as stated: after any run, the sequence persisted in output.json has
\* as many entries as commits were evaluated in that run, all with a
\* non-negative integer buildSize (no file counting as the empty sequence).
C11_PersistedAfterAnyRun ==
    Ended => /\ Len(Persisted) = Len(output)
             /\ \A i \in 1..Len(Persisted) : Persisted[i].buildSize \in Nat

\* C11 amended: once a run has written output.json, parsing the file
\* succeeds and yields as many entries as commits were evaluated in that
\* run, all with a non-negative integer buildSize; until a run writes it,
\* output.json is as it was when the run started.
C11_WrittenReportRoundTrips ==
    /\ WroteJson =>
          /\ JsonParse(outputJson[1]).ok
          /\ Len(Persisted) = Len(output)
          /\ Len(Persisted) = OkCount("info")
          /\ \A i \in 1..Len(Persisted) : Persisted[i].buildSize \in Nat
    /\ ~WroteJson => outputJson = startFiles[1]

C11_Witness ==
    /\ Ended /\ WroteJson
    /\ Len(output) = 2 /\ output[1].message = Quoted /\ output[2].buildSize = 1

\* C12: no report write is issued before the restoring checkout has been
\* attempted, and when a report write is rejected the working directory is
\* back on the reference it was on when the run started.
C12_RestoredBeforeReport ==
    \A q \in 1..Len(log) :
        log[q].op \in WriteOps =>
            /\ \E p \in 1..(q - 1) : log[p].op = "checkoutBranch"
            /\ ~log[q].ok => head = startWorkdir[1]

\* C13: per commit the steps are issued in the order checkout, (rm,)
\* install, build, stat, info, each after the one before it succeeded on
\* the same commit; the checkout of a commit follows the prompt or the
\* successful info of the commit before it; every successful info has
\* appended one result, describing its commit; and while a commit is
\* built, measured and read, that commit is what is checked out.
C13_StepOrder ==
    /\ \A p \in 1..Len(log) :
          log[p].op \in PerCommitOps =>
              LET e == log[p]
                  b == log[p - 1]
              IN  CASE e.op = "checkoutCommit" ->
                          \/ b.op = "prompt" /\ PosOf(e.arg) = 1
                          \/ /\ b.op = "info" /\ b.ok
                             /\ PosOf(e.arg) = PosOf(b.arg) + 1
                    [] e.op = "rm" -> b = Entry("checkoutCommit", e.arg, TRUE)
                    [] e.op = "install" ->
                          b \in {Entry("checkoutCommit", e.arg, TRUE),
                                 Entry("rm", e.arg, TRUE)}
                    [] e.op = "build" -> b = Entry("install", e.arg, TRUE)
                    [] e.op = "stat" -> b = Entry("build", e.arg, TRUE)
                    [] e.op = "info" -> b = Entry("stat", e.arg, TRUE)
    /\ Len(output) = OkCount("info")
    /\ \A i \in 1..Len(output) : output[i].hash = commits[i]
    /\ pc \in (LoopPcs \ {"checkoutCommit"}) => head = Commit

C13_Witness ==
    /\ pc = "getCurrentCommitInfo" /\ Len(output) = 1
    /\ head = commits[2] /\ Last = Entry("stat", commits[2], TRUE)

\* node_modules existed when the k-th selected commit reached the clean step
ExistedAt(k) == IF k = 1 THEN startWorkdir[3] ELSE TRUE

\* C14: rm is issued right after the checkout and exactly when node_modules
\* exists; install comes right after a successful rm, or after the checkout
\* when there was nothing to remove; build comes right after a successful
\* install; a sub-step that exits non-zero is rejected and no further
\* sub-step, measurement or result follows it.
C14_BuildSubSteps ==
    \A p \in 1..Len(log) :
        log[p].op \in BuildOps =>
            LET e == log[p]
                b == log[p - 1]
            IN  /\ e.op = "rm" =>
                      /\ b = Entry("checkoutCommit", e.arg, TRUE)
                      /\ ExistedAt(PosOf(e.arg))
                /\ e.op = "install" =>
                      \/ b = Entry("rm", e.arg, TRUE)
                      \/ /\ b = Entry("checkoutCommit", e.arg, TRUE)
                         /\ ~ExistedAt(PosOf(e.arg))
                /\ e.op = "build" => b = Entry("install", e.arg, TRUE)
                /\ ExitCode(e.op, e.arg) # 0 =>
                      /\ ~e.ok
                      /\ \A q \in (p + 1)..Len(log) :
                            log[q].op \notin PerCommitOps
                      /\ Len(output) = PosOf(e.arg) - 1

C14_Witness ==
    /\ Len(log) > 4 /\ Len(commits) >= 1
    /\ Last = Entry("install", commits[1], FALSE)
    /\ log[Len(log) - 1] = Entry("rm", commits[1], TRUE)
    /\ Ended

\* C15: at most one external operation is in flight, the one run() is
\* awaiting; when a checkout is in flight nothing else is.
C15_OneInFlight ==
    /\ Cardinality(inflight) <= 1
    /\ inflight \subseteq {pc}
    /\ pc \in {"checkoutCommit", "checkoutBranch"} => inflight = {pc}

C15_Witness ==
    /\ pc = "checkoutCommit" /\ index = 1 /\ inflight = {"checkoutCommit"}
    /\ Last = Entry("info", commits[1], TRUE)

C17_CountBounded ==
    /\ commitLimit > 0 => Len(output) <= Min(Len(listed), commitLimit)
    /\ Len(output) = OkCount("info")
    /\ Len(output) = index

C17_Witness ==
    /\ commitLimit = 2 /\ Len(listed) = 3 /\ Len(output) = 2
    /\ pc = "checkoutBranch"

\* C18: once the process has exited, a rejected checkout, build step,
\* measurement or report write has ended the run rejected with a non-zero
\* exit status; and no step is issued twice for a commit, nor the
\* restoring checkout twice in a run.
C18_FailuresExitNonZero ==
    /\ (exitCode # NotExited
          /\ \E p \in 1..Len(log) :
                /\ log[p].op \in PerCommitOps \cup WriteOps
                                   \cup {"checkoutBranch"}
                /\ ~log[p].ok)
          => (outcome = "rejected" /\ exitCode # 0)
    /\ \A p, q \in 1..Len(log) :
          (p # q /\ log[p].op = log[q].op
             /\ log[p].op \in PerCommitOps \cup WriteOps \cup {"checkoutBranch"})
              => log[p].arg # log[q].arg /\ log[p].op # "checkoutBranch"

\* C19: a report write is issued only after every selected commit was
\* evaluated and the restoring checkout succeeded; a run that a per-commit
\* step or the restoring checkout rejected leaves both files as they were;
\* report.html is written after output.json was; and when both are written
\* both carry the result sequence of the run.
C19_ReportOnlyAfterSuccess ==
    /\ \A q \in 1..Len(log) :
          log[q].op \in WriteOps =>
              /\ Len(output) = Len(commits)
              /\ OkCount("info") = Len(commits)
              /\ OkCount("checkoutBranch") = 1
              /\ log[q].op = "writeHtml" =>
                    log[q - 1] = Entry("writeJson", Len(output), TRUE)
    /\ (\E p \in 1..Len(log) :
           /\ log[p].op \in PerCommitOps \cup {"checkoutBranch"}
           /\ ~log[p].ok)
          => (files = startFiles /\ ~IssuedAny(WriteOps))
    /\ WroteBoth =>
          /\ JsonParse(outputJson[1]) = [ok |-> TRUE, value |-> output]
          /\ CommitData(reportHtml[1]) = [ok |-> TRUE, value |-> output]

====
